---- MODULE Spec2Model ----
(***************************************************************************)
(* HPD -> Toolswift price synchronisation.                                 *)
(*                                                                         *)
(* Two parts are modelled:                                                 *)
(*   - hpd/pricing.py  compute_final_price, as an operator on products     *)
(*     whose money fields are integers counted in thousandths of a dollar  *)
(*     (so that the final round(x, 2) is a real conversion);               *)
(*   - the two orchestrators main.run_job and handlers.run_job, as one     *)
(*     state machine whose program counter walks the statements of the     *)
(*     chosen variant, every external call (vendor API, file system,       *)
(*     file-processor, S3, Toolswift, SMTP) answering nondeterministically.*)
(*                                                                         *)
(* Python's None is the empty tuple <<>>, an optional value v is <<v>>.    *)
(* Decimal products (x * 1.4 ...) are computed exactly; the binary64       *)
(* representation only shows in round(x, 2) on a decimal tie, which is     *)
(* modelled as going either way.                                           *)
(***************************************************************************)
EXTENDS Integers, Sequences, FiniteSets, TLC

VARIABLES
    \* ---- pricing harness -------------------------------------------------
    product,        \* the Product handed to compute_final_price
    tieUp,          \* how round(x, 2) resolves a decimal tie for this input
    final_price,    \* <<>> before the call, <<price>> after it
    \* ---- orchestrator ----------------------------------------------------
    variant,        \* "main" (main.run_job) or "handlers" (handlers.run_job)
    env,            \* process environment: which settings are present
    pc,             \* position of the run inside run_job
    products,       \* local `products`
    priced,         \* local `priced`
    ts,             \* local `ts` / `timestamp`   (<<>> while unbound)
    s3_key,         \* local `s3_key`             (<<>> while unbound)
    remote_location,\* local `remote_location` / `location_url`
    disk,           \* temp files present in OUTPUT_DIR (main)
    bucket,         \* object keys present in the S3 bucket (handlers)
    pending,        \* exception caught by the outer handler, to re-raise
    outcome,        \* what the caller of run_job receives
    \* ---- observation (history) -------------------------------------------
    fetchCalls,     \* number of get_full_catalog calls made
    handoffCalls,   \* payloads POSTed to /products/json-bulk-upload
    notifyLog,      \* notification attempts, in order
    trace,          \* stage begin/end events, in order
    hist,           \* how each external step of this run answered
    \* ---- catalog client (hpd/api.py, hpd/auth.py) -------------------------
    creds,          \* module globals APP_ID and API_KEY
    call,           \* the client call being made and what the network does
    wire,           \* what was signed and what was put on the wire
    reply,          \* <<>> before the call, <<answer of the call>> after it
    \* ---- two overlapping runs (scheduler tick and /run-now) ---------------
    rcfg,           \* which run_job is deployed, and SAVE_OUTPUT_FILES
    now,            \* the wall clock, in seconds
    rpc,            \* position of each run
    rts,            \* local `ts` / `timestamp` of each run
    store,          \* per artefact name: 0 if absent, else the run whose
                    \* content it holds
    touches         \* which run did what to which artefact name

pricingVars == <<product, tieUp, final_price>>
jobVars == <<variant, env, pc, products, priced, ts, s3_key, remote_location,
             disk, bucket, pending, outcome, fetchCalls, handoffCalls,
             notifyLog, trace, hist>>
clientVars == <<creds, call, wire, reply>>
raceVars == <<rcfg, now, rpc, rts, store, touches>>
vars == <<product, tieUp, final_price, variant, env, pc, products, priced,
          ts, s3_key, remote_location, disk, bucket, pending, outcome,
          fetchCalls, handoffCalls, notifyLog, trace, hist,
          creds, call, wire, reply, rcfg, now, rpc, rts, store, touches>>

----------------------------------------------------------------------------
(* Bounds *)

\* largest multiple of 0.335 $ in the price grid
MaxPriceSteps == 12
\* number of distinct keys a POST payload can have
MaxKeys == 2
\* largest number of catalog rows the vendor returns
MaxRows == 2
\* number of distinct clock readings (seconds) a run can observe
MaxClock == 2

----------------------------------------------------------------------------
(* Values *)

None == <<>>
Some(v) == <<v>>
IsNone(x) == x = <<>>
Val(x) == x[1]

\* money is counted in thousandths of a dollar
Dollar == 1000
Cents99 == 990
\* the worked examples of the pricing rule: 10, 20, 50, 100 dollars
SamplePrices == {10 * Dollar, 20 * Dollar, 50 * Dollar, 100 * Dollar}
\* grid step 0.335 $: multiples hit decimal ties (0.335, 1.005, ...) and
\* values on both sides of the margin floors
PriceGrid == {k * 335 : k \in 0..MaxPriceSteps} \cup SamplePrices
\* a price field: absent, negative, zero or positive
PriceField == {None} \cup {Some(0 - Dollar)} \cup {Some(v) : v \in PriceGrid}

----------------------------------------------------------------------------
(* hpd/models.py, hpd/pricing.py *)

\* the fields of Product the pipeline reads
Product(pn, avail, disc, cad, usd, cost) ==
    [PartNumber |-> pn, Available |-> avail, Discontinued |-> disc,
     CADmap |-> cad, USDmap |-> usd, Price |-> cost]

\* math.floor(x * num/den) for a price x in thousandths, as whole dollars
FloorMul(x, num, den) == (x * num) \div (den * Dollar)

\* round(x, 2): to the nearest cent; a decimal tie goes where the binary
\* representation of x happens to lie, `up` says which side
Round2(x, up) ==
    LET q == x \div 10
        r == x % 10
    IN  IF r < 5 THEN q * 10
        ELSE IF r > 5 THEN (q + 1) * 10
        ELSE IF up THEN (q + 1) * 10 ELSE q * 10

\* variant: the priority of the candidates reversed
LastNotNone(t) ==
    IF \E i \in 1..Len(t) : ~IsNone(t[i])
    THEN t[CHOOSE i \in 1..Len(t) :
              ~IsNone(t[i]) /\ \A j \in (i + 1)..Len(t) : IsNone(t[j])]
    ELSE None

\* first element of a tuple of optionals that is not None, else None
FirstNotNone(t) ==
    IF \E i \in 1..Len(t) : ~IsNone(t[i])
    THEN t[CHOOSE i \in 1..Len(t) :
              ~IsNone(t[i]) /\ \A j \in 1..(i - 1) : IsNone(t[j])]
    ELSE None

\* min_margin of compute_final_price
min_margin(cost_price) ==
    IF ~IsNone(cost_price) /\ Val(cost_price) > 0
    THEN Some(FloorMul(Val(cost_price), 13, 10) * Dollar + Cents99)
    ELSE None

\* variant: the floor is never enforced
BelowMargin_never(base_price, mm) == FALSE

\* the floor test of compute_final_price
BelowMargin(base_price, mm) ==
    ~IsNone(base_price) /\ ~IsNone(mm) /\ Val(base_price) < Val(mm)

compute_final_price(p, up) ==
    LET cad_map == p.CADmap
        usd_map == p.USDmap
        cost_price == p.Price
        conv_cad == IF ~IsNone(cad_map) /\ Val(cad_map) > 0
                    THEN cad_map ELSE None
        conv_usd == IF ~IsNone(usd_map) /\ Val(usd_map) > 0
                    THEN Some(FloorMul(Val(usd_map), 14, 10) * Dollar + Cents99)
                    ELSE None
        conv_cost == IF ~IsNone(cost_price) /\ Val(cost_price) > 0
                     THEN Some(FloorMul(Val(cost_price), 175, 100) * Dollar + Cents99)
                     ELSE None
        base_price == FirstNotNone(<<conv_cad, conv_usd, conv_cost>>)
        mm == min_margin(cost_price)
        fp == IF BelowMargin(base_price, mm) THEN mm ELSE base_price
    IN  IF IsNone(fp) THEN 0 ELSE Round2(Val(fp), up)

\* int(x) of a quantity x counted in tenths: truncation toward zero
IntTrunc(x) == IF x >= 0 THEN x \div 10 ELSE 0 - ((0 - x) \div 10)

\* the value stored under "isActive"
isActive(p) == p.Discontinued

\* one entry of compute_priced_catalog
PricedEntry(p, up) ==
    [SKU |-> p.PartNumber,
     FinalPrice |-> compute_final_price(p, up),
     CostPrice |-> p.Price,
     isActive |-> isActive(p),
     Inventory |-> IntTrunc(Val(p.Available))]

\* int(None) raises TypeError: the comprehension fails as a whole
PricingRaises(ps) == \E i \in 1..Len(ps) : IsNone(ps[i].Available)

\* a call answers with an exception (exc = <<name>>) or a value (exc = <<>>)
Raised(e) == [exc |-> Some(e), val |-> None]
Returned(v) == [exc |-> None, val |-> v]

\* variant: discontinued products are filtered out
compute_priced_catalog_active_only(ps, up) ==
    LET kept == SelectSeq(ps, LAMBDA q : ~q.Discontinued)
    IN  IF PricingRaises(ps) THEN Raised("TypeError")
        ELSE Returned([i \in 1..Len(kept) |-> PricedEntry(kept[i], up)])

compute_priced_catalog(ps, up) ==
    IF PricingRaises(ps) THEN Raised("TypeError")
    ELSE Returned([i \in 1..Len(ps) |-> PricedEntry(ps[i], up)])

----------------------------------------------------------------------------
(* hpd/api.py *)

\* rows the vendor can send: a duplicate part number, a discontinued and
\* back-ordered part, a part with no price at all, a row without quantity
CatalogProducts ==
    { Product("A", Some(30), FALSE, None, Some(20 * Dollar), Some(50 * Dollar)),
      Product("A", Some(0 - 15), TRUE, Some(335), None, None),
      Product("B", Some(0), FALSE, None, None, None),
      Product("B", None, FALSE, None, None, Some(100 * Dollar)) }

RECURSIVE SeqsUpTo(_, _)
SeqsUpTo(S, n) ==
    IF n = 0 THEN {<<>>}
    ELSE LET shorter == SeqsUpTo(S, n - 1)
         IN  shorter \cup {Append(q, x) : q \in {t \in shorter : Len(t) = n - 1}, x \in S}

Catalogs == SeqsUpTo(CatalogProducts, MaxRows)

\* what the vendor / network does with GET /full_catalog
FetchFailures == {"request_error", "http_status", "not_json", "success_false"}
VendorAnswers ==
    {[kind |-> k, rows |-> <<>>] : k \in FetchFailures}
        \cup {[kind |-> "ok", rows |-> r] : r \in Catalogs}

\* get(): a transport failure is printed and None is returned, a 4xx/5xx
\* propagates, a non-JSON body is returned as text
get(ans) ==
    IF ans.kind = "request_error"
    THEN Returned([type |-> "NoneType", success |-> FALSE, rows |-> <<>>])
    ELSE IF ans.kind = "http_status" THEN Raised("HTTPStatusError")
    ELSE IF ans.kind = "not_json"
    THEN Returned([type |-> "str", success |-> FALSE, rows |-> <<>>])
    ELSE Returned([type |-> "dict", success |-> ans.kind = "ok", rows |-> ans.rows])

\* variant: the success flag of the envelope is not looked at
get_full_catalog_unchecked(ans) ==
    LET response == get(ans)
    IN  IF ~IsNone(response.exc) THEN Raised(Val(response.exc))
        ELSE IF response.val.type # "dict" THEN Raised("AttributeError")
        ELSE Returned(response.val.rows)

get_full_catalog(ans) ==
    LET response == get(ans)
    IN  IF ~IsNone(response.exc) THEN Raised(Val(response.exc))
        ELSE IF response.val.type # "dict" THEN Raised("AttributeError")
        ELSE IF ~response.val.success THEN Raised("ValueError")
        ELSE Returned(response.val.rows)

----------------------------------------------------------------------------
(* hpd/toolswift.py *)

URLs == {"https://files.example/1", "https://files.example/2"}
\* a JSON field: missing, empty string, or a URL
JsonField == {None, Some("")} \cup {Some(u) : u \in URLs}
Truthy(x) == ~IsNone(x) /\ Val(x) # ""
\* Python's  a or b : a if a is truthy, else b
Or(a, b) == IF Truthy(a) THEN a ELSE b

HttpFailures == {"request_error", "http_status", "not_json"}
UploadAnswers ==
    {[kind |-> k, uploadedFileUrl |-> None, location |-> None, url |-> None] :
        k \in HttpFailures}
        \cup {[kind |-> "json", uploadedFileUrl |-> a, location |-> b, url |-> c] :
                a \in JsonField, b \in JsonField, c \in JsonField}
HandoffAnswers == HttpFailures \cup {"json"}

HttpException(kind) ==
    IF kind = "request_error" THEN "RequestError"
    ELSE IF kind = "http_status" THEN "HTTPStatusError"
    ELSE "JSONDecodeError"

\* the two guards at the head of both Toolswift calls
ConfigMissing(e) == ~e.store_key \/ ~e.bearer

upload_and_return_url(e, ans) ==
    IF ConfigMissing(e) THEN Raised("ValueError")
    ELSE IF ans.kind # "json" THEN Raised(HttpException(ans.kind))
    ELSE LET location == Or(Or(ans.uploadedFileUrl, ans.location), ans.url)
         IN  IF ~Truthy(location) THEN Raised("ValueError")
             ELSE Returned(location)

\* variant: the body carries the catalog flag but not the location
HandoffPayload_no_location(location_url) == [Location |-> None, upsert |-> TRUE]

\* the JSON body of POST /products/json-bulk-upload
HandoffPayload(location_url) == [Location |-> location_url, upsert |-> TRUE]

\* is the request sent at all, and what does the call answer
HandoffSends(e) == ~ConfigMissing(e)
start_toolswift_upload_with_json(e, ans) ==
    IF ConfigMissing(e) THEN Raised("ValueError")
    ELSE IF ans # "json" THEN Raised(HttpException(ans))
    ELSE Returned("ack")

----------------------------------------------------------------------------
(* main.py, handlers.py : run_job *)

Variants == {"main", "handlers"}
Envs == [store_key : BOOLEAN, bearer : BOOLEAN, bucket_name : BOOLEAN,
         save_output : BOOLEAN]
Clock == 1..MaxClock

\* every exception the calls of a run raise derives from Exception
ExceptionClass ==
    {"AttributeError", "ValueError", "TypeError", "KeyError", "OSError",
     "RuntimeError", "RequestError", "HTTPStatusError", "JSONDecodeError",
     "ClientError"}

\* variant: the upload is not guarded
UploadExcept_none(exc) == FALSE

\* `except Exception` around the upload (main.py)
UploadExcept(exc) == exc \in ExceptionClass
\* variant: only an error status is handled
HandoffExcept_status(exc) == exc = "HTTPStatusError"

\* `except Exception` around the Toolswift initiation (main.py),
\* around staging and Toolswift initiation (handlers.py)
HandoffExcept(exc) == exc \in ExceptionClass
\* variant: notification calls are not guarded
NotifyExcept_none(exc) == FALSE

\* `except Exception` around each notification call
NotifyExcept(exc) == exc \in ExceptionClass
\* `except Exception` around the whole body of handlers.run_job
OuterExcept(exc) == exc \in ExceptionClass

TempFile(t) == <<"HPD_API_PRODUCTS_PRICED_", t, ".json">>
S3Key(t) == <<"pricing_data/priced_catalog_", t, ".json">>
Presigned(key) == <<"presigned", key>>

NoOutcome ==
    [kind |-> "none", exc |-> None, count |-> 0, file |-> None,
     saved_files |-> FALSE, location_url |-> None, s3_key |-> None,
     timestamp |-> None]
RaiseOutcome(exc) == [NoOutcome EXCEPT !.kind = "raise", !.exc = Some(exc)]

\* the dict built at the end of main.run_job
MainResult(pr, e, t, files, loc) ==
    [NoOutcome EXCEPT
        !.kind = "return",
        !.count = Len(pr),
        !.file = IF e.save_output /\ TempFile(t) \in files
                 THEN Some(TempFile(t)) ELSE None,
        !.saved_files = e.save_output,
        !.location_url = loc]

\* the dict built at the end of handlers.run_job; a local that was never
\* bound is not in locals()
HandlersResult(pr, key, t) ==
    [NoOutcome EXCEPT
        !.kind = "return",
        !.count = Len(pr),
        !.s3_key = key,
        !.timestamp = t]

NoHist ==
    [fetch |-> "none", price |-> "none", write |-> "none", stage |-> "none",
     handoff |-> "none", staged |-> None, clock |-> None]

Begin(stage) == <<stage, "begin">>
End(stage) == <<stage, "end">>

\* variant: handlers.run_job initiates Toolswift before staging
AfterPrice_handoff_first(v) == IF v = "main" THEN "m_write" ELSE "h_handoff"

\* where the statement after compute_priced_catalog is
AfterPrice(v) == IF v = "main" THEN "m_write" ELSE "h_start_email"

\* an exception no inner handler took: main.run_job has no outer handler,
\* handlers.run_job catches it, notifies and re-raises
Propagate(exc) ==
    IF variant = "handlers" /\ OuterExcept(exc)
    THEN /\ pc' = "h_outer_except"
         /\ pending' = Some(exc)
         /\ outcome' = outcome
    ELSE /\ pc' = "done"
         /\ pending' = pending
         /\ outcome' = RaiseOutcome(exc)

\* control moves on inside run_job
Goto(l) ==
    /\ pc' = l
    /\ pending' = pending
    /\ outcome' = outcome

\* a notification call inside try/except: the attempt is logged; a failure
\* the handler takes changes nothing else
Notify(kind, ok) == notifyLog' = Append(notifyLog, [kind |-> kind, ok |-> ok])

\* products = get_full_catalog()
Fetch ==
    /\ pc = "fetch"
    /\ \E ans \in VendorAnswers :
         LET r == get_full_catalog(ans)
         IN  /\ fetchCalls' = fetchCalls + 1
             /\ trace' = trace \o <<Begin("fetch"), End("fetch")>>
             /\ hist' = [hist EXCEPT !.fetch = ans.kind]
             /\ IF IsNone(r.exc)
                THEN products' = Some(r.val) /\ Goto("price")
                ELSE products' = products /\ Propagate(Val(r.exc))
    /\ UNCHANGED <<pricingVars, clientVars, raceVars, variant, env, priced, ts, s3_key,
                   remote_location, disk, bucket, handoffCalls, notifyLog>>

\* priced = compute_priced_catalog(products)
Price ==
    /\ pc = "price"
    /\ LET r == compute_priced_catalog(Val(products), tieUp)
       IN  /\ trace' = trace \o <<Begin("pricing"), End("pricing")>>
           /\ IF IsNone(r.exc)
              THEN /\ priced' = Some(r.val)
                   /\ hist' = [hist EXCEPT !.price = "ok"]
                   /\ Goto(AfterPrice(variant))
              ELSE /\ priced' = priced
                   /\ hist' = [hist EXCEPT !.price = Val(r.exc)]
                   /\ Propagate(Val(r.exc))
    /\ UNCHANGED <<pricingVars, clientVars, raceVars, variant, env, products, ts, s3_key,
                   remote_location, disk, bucket, fetchCalls, handoffCalls,
                   notifyLog>>

\* main: ensure_output_dir(), ts = now, json.dump(priced) to the temp file
MWrite ==
    /\ variant = "main" /\ pc = "m_write"
    /\ \E t \in Clock, ok \in BOOLEAN :
         /\ trace' = Append(trace, Begin("staging"))
         /\ IF ok
            THEN /\ ts' = Some(t)
                 /\ disk' = disk \cup {TempFile(t)}
                 /\ hist' = [hist EXCEPT !.write = "ok", !.clock = Some(t)]
                 /\ Goto("m_upload")
            ELSE /\ ts' = ts
                 /\ disk' = disk
                 /\ hist' = [hist EXCEPT !.write = "OSError"]
                 /\ Propagate("OSError")
    /\ UNCHANGED <<pricingVars, clientVars, raceVars, variant, env, products, priced, s3_key,
                   remote_location, bucket, fetchCalls, handoffCalls,
                   notifyLog>>

\* main: remote_location = upload_and_return_url(str(temp_file)) in try/except
MUpload ==
    /\ variant = "main" /\ pc = "m_upload"
    /\ \E ans \in UploadAnswers :
         LET r == upload_and_return_url(env, ans)
         IN  /\ trace' = Append(trace, End("staging"))
             /\ IF IsNone(r.exc)
                THEN /\ remote_location' = r.val
                     /\ hist' = [hist EXCEPT !.stage = "ok", !.staged = r.val]
                     /\ Goto(IF env.save_output THEN "m_start_email" ELSE "m_unlink")
                ELSE /\ remote_location' = remote_location
                     /\ hist' = [hist EXCEPT !.stage = Val(r.exc)]
                     /\ IF UploadExcept(Val(r.exc))
                        THEN Goto("m_start_email")
                        ELSE Propagate(Val(r.exc))
    /\ UNCHANGED <<pricingVars, clientVars, raceVars, variant, env, products, priced, ts, s3_key,
                   disk, bucket, fetchCalls, handoffCalls, notifyLog>>

\* main: temp_file.unlink(missing_ok=True) in try/except, SAVE_OUTPUT_FILES off
MUnlink ==
    /\ variant = "main" /\ pc = "m_unlink"
    /\ \E ok \in BOOLEAN :
         disk' = IF ok THEN disk \ {TempFile(Val(ts))} ELSE disk
    /\ Goto("m_start_email")
    /\ UNCHANGED <<pricingVars, clientVars, raceVars, variant, env, products, priced, ts, s3_key,
                   remote_location, bucket, fetchCalls, handoffCalls,
                   notifyLog, trace, hist>>

\* main: send_integration_started_email(len(priced)) in its own try/except,
\* itself inside the try block of the Toolswift initiation
MStartEmail ==
    /\ variant = "main" /\ pc = "m_start_email"
    /\ \E ok \in BOOLEAN :
         /\ Notify("start", ok)
         /\ IF ok \/ NotifyExcept("RuntimeError") THEN Goto("m_handoff")
            ELSE IF HandoffExcept("RuntimeError") THEN Goto("m_result")
            ELSE Propagate("RuntimeError")
    /\ UNCHANGED <<pricingVars, clientVars, raceVars, variant, env, products, priced, ts, s3_key,
                   remote_location, disk, bucket, fetchCalls, handoffCalls,
                   trace, hist>>

\* the Toolswift initiation of either variant: the request goes out once the
\* configuration guards pass; main passes location_url only when
\* remote_location is truthy, and the default of the parameter is None
Handoff(location_url, onError) ==
    \E ans \in HandoffAnswers :
        LET r == start_toolswift_upload_with_json(env, ans)
        IN  /\ trace' = trace \o <<Begin("handoff"), End("handoff")>>
            /\ handoffCalls' = IF HandoffSends(env)
                               THEN Append(handoffCalls, HandoffPayload(location_url))
                               ELSE handoffCalls
            /\ IF IsNone(r.exc)
               THEN /\ hist' = [hist EXCEPT !.handoff = "ok"]
                    /\ Goto(IF variant = "main" THEN "m_result" ELSE "h_result")
               ELSE /\ hist' = [hist EXCEPT !.handoff = Val(r.exc)]
                    /\ IF HandoffExcept(Val(r.exc))
                       THEN Goto(onError)
                       ELSE Propagate(Val(r.exc))

MHandoff ==
    /\ variant = "main" /\ pc = "m_handoff"
    /\ Handoff(IF Truthy(remote_location) THEN remote_location ELSE None,
               "m_result")
    /\ UNCHANGED <<pricingVars, clientVars, raceVars, variant, env, products, priced, ts, s3_key,
                   remote_location, disk, bucket, fetchCalls, notifyLog>>

\* main: result = {...}; return result
MResult ==
    /\ variant = "main" /\ pc = "m_result"
    /\ pc' = "done"
    /\ outcome' = MainResult(Val(priced), env, Val(ts), disk, remote_location)
    /\ UNCHANGED <<pricingVars, clientVars, raceVars, variant, env, products, priced, ts, s3_key,
                   remote_location, disk, bucket, pending, fetchCalls,
                   handoffCalls, notifyLog, trace, hist>>

\* handlers: notify_integration_started(len(priced)) in try/except
HStartEmail ==
    /\ variant = "handlers" /\ pc = "h_start_email"
    /\ \E ok \in BOOLEAN :
         /\ Notify("start", ok)
         /\ IF ok \/ NotifyExcept("RuntimeError") THEN Goto("h_stage")
            ELSE Propagate("RuntimeError")
    /\ UNCHANGED <<pricingVars, clientVars, raceVars, variant, env, products, priced, ts, s3_key,
                   remote_location, disk, bucket, fetchCalls, handoffCalls,
                   trace, hist>>

\* a failure inside the staging/handoff try block of handlers.run_job
HStageFails(sofar, exc) ==
    /\ trace' = Append(sofar, End("staging"))
    /\ hist' = [hist EXCEPT !.stage = exc]
    /\ IF HandoffExcept(exc) THEN Goto("h_inner_except") ELSE Propagate(exc)

\* handlers: boto3.client('s3'), os.environ['S3_BUCKET_NAME'],
\* timestamp = now, s3_key = f"pricing_data/priced_catalog_{timestamp}.json"
HStage ==
    /\ variant = "handlers" /\ pc = "h_stage"
    /\ \E t \in Clock, clientOk \in BOOLEAN :
         IF ~clientOk
         THEN /\ HStageFails(Append(trace, Begin("staging")), "ClientError")
              /\ UNCHANGED <<ts, s3_key>>
         ELSE IF ~env.bucket_name
         THEN /\ HStageFails(Append(trace, Begin("staging")), "KeyError")
              /\ UNCHANGED <<ts, s3_key>>
         ELSE /\ ts' = Some(t)
              /\ s3_key' = Some(S3Key(t))
              /\ trace' = Append(trace, Begin("staging"))
              /\ hist' = [hist EXCEPT !.clock = Some(t)]
              /\ Goto("h_put")
    /\ UNCHANGED <<pricingVars, clientVars, raceVars, variant, env, products, priced,
                   remote_location, disk, bucket, fetchCalls, handoffCalls,
                   notifyLog>>

\* handlers: s3_client.put_object(Bucket, Key=s3_key, Body=json.dumps(priced))
HPut ==
    /\ variant = "handlers" /\ pc = "h_put"
    /\ \E ok \in BOOLEAN :
         IF ok
         THEN /\ bucket' = bucket \cup {Val(s3_key)}
              /\ Goto("h_presign")
              /\ UNCHANGED <<trace, hist>>
         ELSE /\ bucket' = bucket
              /\ HStageFails(trace, "ClientError")
    /\ UNCHANGED <<pricingVars, clientVars, raceVars, variant, env, products, priced, ts, s3_key,
                   remote_location, disk, fetchCalls, handoffCalls, notifyLog>>

\* handlers: location_url = s3_client.generate_presigned_url(...)
HPresign ==
    /\ variant = "handlers" /\ pc = "h_presign"
    /\ \E ok \in BOOLEAN :
         IF ok
         THEN /\ remote_location' = Some(Presigned(Val(s3_key)))
              /\ trace' = Append(trace, End("staging"))
              /\ hist' = [hist EXCEPT !.stage = "ok",
                                      !.staged = Some(Presigned(Val(s3_key)))]
              /\ Goto("h_handoff")
         ELSE /\ remote_location' = remote_location
              /\ HStageFails(trace, "ClientError")
    /\ UNCHANGED <<pricingVars, clientVars, raceVars, variant, env, products, priced, ts, s3_key,
                   disk, bucket, fetchCalls, handoffCalls, notifyLog>>

HHandoff ==
    /\ variant = "handlers" /\ pc = "h_handoff"
    /\ Handoff(remote_location, "h_inner_except")
    /\ UNCHANGED <<pricingVars, clientVars, raceVars, variant, env, products, priced, ts, s3_key,
                   remote_location, disk, bucket, fetchCalls, notifyLog>>

\* handlers: notify_error("Toolswift initiation failed", e) in try/except
HInnerExcept ==
    /\ variant = "handlers" /\ pc = "h_inner_except"
    /\ \E ok \in BOOLEAN :
         /\ Notify("error", ok)
         /\ IF ok \/ NotifyExcept("RuntimeError") THEN Goto("h_result")
            ELSE Propagate("RuntimeError")
    /\ UNCHANGED <<pricingVars, clientVars, raceVars, variant, env, products, priced, ts, s3_key,
                   remote_location, disk, bucket, fetchCalls, handoffCalls,
                   trace, hist>>

\* handlers: result = {...}; return result
HResult ==
    /\ variant = "handlers" /\ pc = "h_result"
    /\ pc' = "done"
    /\ outcome' = HandlersResult(Val(priced), s3_key, ts)
    /\ UNCHANGED <<pricingVars, clientVars, raceVars, variant, env, products, priced, ts, s3_key,
                   remote_location, disk, bucket, pending, fetchCalls,
                   handoffCalls, notifyLog, trace, hist>>

\* handlers: except Exception as e: notify_error("Job execution failed", e)
\* in try/except; raise
HOuterExcept ==
    /\ variant = "handlers" /\ pc = "h_outer_except"
    /\ \E ok \in BOOLEAN :
         /\ Notify("error", ok)
         /\ pc' = "done"
         /\ outcome' = IF ok \/ NotifyExcept("RuntimeError")
                       THEN RaiseOutcome(Val(pending))
                       ELSE RaiseOutcome("RuntimeError")
    /\ UNCHANGED <<pricingVars, clientVars, raceVars, variant, env, products, priced, ts, s3_key,
                   remote_location, disk, bucket, pending, fetchCalls,
                   handoffCalls, trace, hist>>

----------------------------------------------------------------------------
(* hpd/auth.py, hpd/api.py : the signed catalog client *)

\* a text is a tuple of tokens; the empty string is the empty tuple
Tok(c) == <<c, 0>>
EmptyText == <<>>

\* a JSON object is the tuple of its keys in insertion order; keys are
\* numbered in alphabetical order and key k holds value k
KeySet == 1..MaxKeys
Payloads ==
    {q \in SeqsUpTo(KeySet, MaxKeys) :
        \A i \in 1..Len(q) : \A j \in 1..Len(q) : i # j => q[i] # q[j]}

\* the keys of an object in alphabetical order
SortedKeys(d) ==
    CHOOSE q \in Payloads :
        /\ Len(q) = Len(d)
        /\ \A i \in 1..Len(d) : \E j \in 1..Len(q) : q[j] = d[i]
        /\ \A i \in 1..Len(q) : \A j \in 1..Len(q) : i < j => q[i] < q[j]

RECURSIVE JsonItems(_, _, _)
JsonItems(keys, item_sep, key_sep) ==
    IF keys = <<>> THEN <<>>
    ELSE <<<<"key", Head(keys)>>, Tok(key_sep), <<"value", Head(keys)>>>>
            \o (IF Tail(keys) = <<>> THEN <<>> ELSE <<Tok(item_sep)>>)
            \o JsonItems(Tail(keys), item_sep, key_sep)

\* json.dumps(data, sort_keys=..., separators=(item_sep, key_sep))
JsonDumps(d, sort_keys, item_sep, key_sep) ==
    <<Tok("{")>>
        \o JsonItems(IF sort_keys THEN SortedKeys(d) ELSE d, item_sep, key_sep)
        \o <<Tok("}")>>

\* body_str of post(): sorted keys, tight separators
SignedBody(d) == JsonDumps(d, TRUE, ",", ":")

\* the body httpx builds for json=data: insertion order; the separators are
\* the default ones or the tight ones, depending on the httpx release
SentBody(d, compact) ==
    IF compact THEN JsonDumps(d, FALSE, ",", ":")
    ELSE JsonDumps(d, FALSE, ", ", ": ")

\* APP_ID / API_KEY = os.getenv(...): unset, empty or set
CredValues == {None, Some(""), Some("secret")}
Creds == [app_id : CredValues, api_key : CredValues]
\* f"{x}" of an optional string
Str(x) == IF IsNone(x) THEN "None" ELSE Val(x)

\* str.upper() / str.lower() on the methods and paths the harness uses
Upper(m) == IF m = "get" THEN "GET" ELSE IF m = "post" THEN "POST" ELSE m
Lower(path_) == IF path_ = "/Full_Catalog" THEN "/full_catalog" ELSE path_

Md5(content) == <<"md5", content>>
Base64(bytes) == <<"base64", bytes>>
\* md5_base64: the empty content is answered by the literal, which is the
\* base64 MD5 of the empty string
md5_base64(content) ==
    IF content = EmptyText THEN Base64(Md5(EmptyText)) ELSE Base64(Md5(content))

HmacSha256(key, message) == <<"hmac-sha256", key, message>>

\* generate_auth_header: None has no .encode(), every str (the empty one
\* too) is a usable HMAC key, and APP_ID is only formatted
generate_auth_header(c, method, path_, query, body, t, nonce) ==
    LET body_md5 == md5_base64(body)
        message == <<Str(c.app_id), Upper(method), Lower(path_), query, t,
                     nonce, body_md5>>
    IN  IF IsNone(c.api_key) THEN Raised("AttributeError")
        ELSE Returned(<<"smx", Str(c.app_id),
                        Base64(HmacSha256(Val(c.api_key), message)), t, nonce>>)

ClientOps == {"sign", "get", "post", "get_full_catalog"}
NetAnswers == {"request_error", "http_status", "not_json", "success_false", "ok"}
Nonces == {"nonceA", "nonceB"}

\* post(): the header is built first; then httpx.post, raise_for_status and
\* response.json() run unguarded
post(ans) ==
    IF ans.kind = "request_error" THEN Raised("RequestError")
    ELSE IF ans.kind = "http_status" THEN Raised("HTTPStatusError")
    ELSE IF ans.kind = "not_json" THEN Raised("JSONDecodeError")
    ELSE Returned([type |-> "dict", success |-> ans.kind = "ok", rows |-> ans.rows])

NoWire == [header |-> None, signed |-> None, sent |-> None, requested |-> FALSE]

\* the calls the harness makes; fields a call does not use are fixed
Calls ==
    {[op |-> "sign", method |-> m, path |-> pa, data |-> <<>>,
      net |-> "ok", compact |-> FALSE, time |-> t, nonce |-> n] :
        m \in {"get", "GET", "post"},
        pa \in {"/Full_Catalog", "/full_catalog"}, t \in Clock, n \in Nonces}
    \cup
    {[op |-> o, method |-> "GET", path |-> pa, data |-> <<>>,
      net |-> a, compact |-> FALSE, time |-> t, nonce |-> n] :
        o \in {"get", "get_full_catalog"}, pa \in {"/full_catalog"},
        a \in NetAnswers, t \in Clock, n \in Nonces}
    \cup
    {[op |-> "post", method |-> "POST", path |-> "/place_order", data |-> d,
      net |-> a, compact |-> c, time |-> t, nonce |-> n] :
        d \in Payloads, a \in NetAnswers, c \in BOOLEAN, t \in Clock,
        n \in Nonces}

\* the vendor answer behind call.net; an "ok" catalog has one row
AnswerOf(cl) ==
    [kind |-> cl.net,
     rows |-> IF cl.net = "ok" THEN <<CHOOSE q \in CatalogProducts : TRUE>>
              ELSE <<>>]

\* the Authorization header of the call under way
HeaderOf(cl, body) ==
    generate_auth_header(creds, cl.method, cl.path, EmptyText, body,
                         cl.time, cl.nonce)

\* generate_auth_header(method, path) called on its own
DoSign ==
    /\ call.op = "sign" /\ IsNone(reply)
    /\ LET h == HeaderOf(call, EmptyText)
       IN  /\ wire' = [wire EXCEPT !.header = Some(h)]
           /\ reply' = Some(h)
    /\ UNCHANGED <<pricingVars, jobVars, raceVars, creds, call>>

\* get(endpoint)
DoGet ==
    /\ call.op = "get" /\ IsNone(reply)
    /\ LET h == HeaderOf(call, EmptyText)
       IN  IF ~IsNone(h.exc)
           THEN /\ wire' = [wire EXCEPT !.header = Some(h)]
                /\ reply' = Some(Raised(Val(h.exc)))
           ELSE /\ wire' = [wire EXCEPT !.header = Some(h),
                                        !.signed = Some(EmptyText),
                                        !.requested = TRUE]
                /\ reply' = Some(get(AnswerOf(call)))
    /\ UNCHANGED <<pricingVars, jobVars, raceVars, creds, call>>

\* get_full_catalog()
DoGetFullCatalog ==
    /\ call.op = "get_full_catalog" /\ IsNone(reply)
    /\ LET h == HeaderOf(call, EmptyText)
       IN  IF ~IsNone(h.exc)
           THEN /\ wire' = [wire EXCEPT !.header = Some(h)]
                /\ reply' = Some(Raised(Val(h.exc)))
           ELSE /\ wire' = [wire EXCEPT !.header = Some(h),
                                        !.signed = Some(EmptyText),
                                        !.requested = TRUE]
                /\ reply' = Some(get_full_catalog(AnswerOf(call)))
    /\ UNCHANGED <<pricingVars, jobVars, raceVars, creds, call>>

\* post(endpoint, data), as place_order uses it
DoPost ==
    /\ call.op = "post" /\ IsNone(reply)
    /\ LET body_str == SignedBody(call.data)
           h == HeaderOf(call, body_str)
       IN  IF ~IsNone(h.exc)
           THEN /\ wire' = [wire EXCEPT !.header = Some(h),
                                        !.signed = Some(body_str)]
                /\ reply' = Some(Raised(Val(h.exc)))
           ELSE /\ wire' = [wire EXCEPT
                              !.header = Some(h),
                              !.signed = Some(body_str),
                              !.sent = Some(SentBody(call.data, call.compact)),
                              !.requested = TRUE]
                /\ reply' = Some(post(AnswerOf(call)))
    /\ UNCHANGED <<pricingVars, jobVars, raceVars, creds, call>>

\* no client call under way
ClientIdle ==
    /\ creds = [app_id |-> Some("secret"), api_key |-> Some("secret")]
    /\ call = [op |-> "idle", method |-> "GET", path |-> "/full_catalog",
               data |-> <<>>, net |-> "ok", compact |-> FALSE, time |-> 1,
               nonce |-> "nonceA"]
    /\ wire = NoWire
    /\ reply = None

----------------------------------------------------------------------------
(* main.py / handlers.py : two runs of run_job overlapping in time *)

\* the scheduler's run and the /run-now run
Runs == {1, 2}
RaceCfgs == [variant : Variants, save_output : BOOLEAN]

Touch(r, op, t) == [run |-> r, op |-> op, name |-> t]

\* run_job up to the priced catalog: nothing shared is touched
RStart(r) ==
    /\ rpc[r] = "idle"
    /\ rpc' = [rpc EXCEPT ![r] = "priced"]
    /\ UNCHANGED <<pricingVars, jobVars, clientVars, rcfg, now, rts, store,
                   touches>>

\* main: ts = now (to the second); open(temp_file, "w"); json.dump
RWrite(r) ==
    /\ rcfg.variant = "main" /\ rpc[r] = "priced"
    /\ rts' = [rts EXCEPT ![r] = Some(now)]
    /\ store' = [store EXCEPT ![now] = r]
    /\ touches' = touches \cup {Touch(r, "write", now)}
    /\ rpc' = [rpc EXCEPT ![r] = "upload"]
    /\ UNCHANGED <<pricingVars, jobVars, clientVars, rcfg, now>>

\* main: upload_and_return_url(str(temp_file)) opens the file by name; a
\* missing file or a failed upload is caught, a good one leads to the unlink
RUpload(r) ==
    /\ rcfg.variant = "main" /\ rpc[r] = "upload"
    /\ IF store[Val(rts[r])] = 0
       THEN /\ rpc' = [rpc EXCEPT ![r] = "handoff"]
            /\ touches' = touches
       ELSE /\ touches' = touches \cup {Touch(r, "upload", Val(rts[r]))}
            /\ \E ok \in BOOLEAN :
                 rpc' = [rpc EXCEPT ![r] =
                           IF ok /\ ~rcfg.save_output THEN "unlink"
                           ELSE "handoff"]
    /\ UNCHANGED <<pricingVars, jobVars, clientVars, rcfg, now, rts, store>>

\* main: temp_file.unlink(missing_ok=True)
RUnlink(r) ==
    /\ rcfg.variant = "main" /\ rpc[r] = "unlink"
    /\ store' = [store EXCEPT ![Val(rts[r])] = 0]
    /\ touches' = touches \cup {Touch(r, "delete", Val(rts[r]))}
    /\ rpc' = [rpc EXCEPT ![r] = "handoff"]
    /\ UNCHANGED <<pricingVars, jobVars, clientVars, rcfg, now, rts>>

\* handlers: timestamp = now (to the second); s3_key from it
RKey(r) ==
    /\ rcfg.variant = "handlers" /\ rpc[r] = "priced"
    /\ rts' = [rts EXCEPT ![r] = Some(now)]
    /\ rpc' = [rpc EXCEPT ![r] = "put"]
    /\ UNCHANGED <<pricingVars, jobVars, clientVars, rcfg, now, store,
                   touches>>

\* handlers: s3_client.put_object(Key=s3_key, ...); a failure is caught
RPut(r) ==
    /\ rcfg.variant = "handlers" /\ rpc[r] = "put"
    /\ \E ok \in BOOLEAN :
         IF ok
         THEN /\ store' = [store EXCEPT ![Val(rts[r])] = r]
              /\ touches' = touches \cup {Touch(r, "write", Val(rts[r]))}
         ELSE UNCHANGED <<store, touches>>
    /\ rpc' = [rpc EXCEPT ![r] = "handoff"]
    /\ UNCHANGED <<pricingVars, jobVars, clientVars, rcfg, now, rts>>

\* the Toolswift initiation and the return of the run
RHandoff(r) ==
    /\ rpc[r] = "handoff"
    /\ rpc' = [rpc EXCEPT ![r] = "done"]
    /\ UNCHANGED <<pricingVars, jobVars, clientVars, rcfg, now, rts, store,
                   touches>>

\* a second passes
Tick ==
    /\ now < MaxClock
    /\ \E r \in Runs : rpc[r] \notin {"off", "done"}
    /\ now' = now + 1
    /\ UNCHANGED <<pricingVars, jobVars, clientVars, rcfg, rpc, rts, store,
                   touches>>

\* no overlapping runs under way
RaceIdle ==
    /\ rcfg = [variant |-> "main", save_output |-> FALSE]
    /\ now = 1
    /\ rpc = [r \in Runs |-> "off"]
    /\ rts = [r \in Runs |-> None]
    /\ store = [t \in Clock |-> 0]
    /\ touches = {}

\* the harness products: one product, priced when the catalog is
IdleProduct == Product("A", Some(0), FALSE, None, None, None)

Init ==
    /\ product = IdleProduct
    /\ tieUp \in BOOLEAN
    /\ final_price = None
    /\ variant \in Variants
    /\ env \in Envs
    /\ pc = "fetch"
    /\ products = None
    /\ priced = None
    /\ ts = None
    /\ s3_key = None
    /\ remote_location = None
    /\ disk = {}
    /\ bucket = {}
    /\ pending = None
    /\ outcome = NoOutcome
    /\ fetchCalls = 0
    /\ handoffCalls = <<>>
    /\ notifyLog = <<>>
    /\ trace = <<>>
    /\ hist = NoHist
    /\ ClientIdle
    /\ RaceIdle

Next ==
    \/ Fetch
    \/ Price
    \/ MWrite
    \/ MUpload
    \/ MUnlink
    \/ MStartEmail
    \/ MHandoff
    \/ MResult
    \/ HStartEmail
    \/ HStage
    \/ HPut
    \/ HPresign
    \/ HHandoff
    \/ HInnerExcept
    \/ HResult
    \/ HOuterExcept

Spec == Init /\ [][Next]_vars

----------------------------------------------------------------------------
(* compute_final_price on its own: every product of the price grid *)

PricingProducts ==
    {Product("A", Some(0), FALSE, c, u, k) :
        c \in PriceField, u \in PriceField, k \in PriceField}

PricingInit ==
    /\ product \in PricingProducts
    /\ tieUp \in BOOLEAN
    /\ final_price = None
    /\ variant = "main"
    /\ env = [store_key |-> TRUE, bearer |-> TRUE, bucket_name |-> TRUE,
              save_output |-> FALSE]
    /\ pc = "idle"
    /\ products = None
    /\ priced = None
    /\ ts = None
    /\ s3_key = None
    /\ remote_location = None
    /\ disk = {}
    /\ bucket = {}
    /\ pending = None
    /\ outcome = NoOutcome
    /\ fetchCalls = 0
    /\ handoffCalls = <<>>
    /\ notifyLog = <<>>
    /\ trace = <<>>
    /\ hist = NoHist
    /\ ClientIdle
    /\ RaceIdle

\* final = compute_final_price(product)
ComputePrice ==
    /\ pc = "idle"
    /\ IsNone(final_price)
    /\ final_price' = Some(compute_final_price(product, tieUp))
    /\ UNCHANGED <<product, tieUp, jobVars, clientVars, raceVars>>

PricingNext == ComputePrice

PricingSpec == PricingInit /\ [][PricingNext]_vars

----------------------------------------------------------------------------
(* the catalog client on its own: every call, credential and answer *)

\* no run and no pricing under way
JobIdle ==
    /\ product = IdleProduct
    /\ tieUp = FALSE
    /\ final_price = None
    /\ variant = "main"
    /\ env = [store_key |-> TRUE, bearer |-> TRUE, bucket_name |-> TRUE,
              save_output |-> FALSE]
    /\ pc = "idle"
    /\ products = None
    /\ priced = None
    /\ ts = None
    /\ s3_key = None
    /\ remote_location = None
    /\ disk = {}
    /\ bucket = {}
    /\ pending = None
    /\ outcome = NoOutcome
    /\ fetchCalls = 0
    /\ handoffCalls = <<>>
    /\ notifyLog = <<>>
    /\ trace = <<>>
    /\ hist = NoHist

ClientInit ==
    /\ JobIdle
    /\ RaceIdle
    /\ creds \in Creds
    /\ call \in Calls
    /\ wire = NoWire
    /\ reply = None

ClientNext ==
    \/ DoSign
    \/ DoGet
    \/ DoGetFullCatalog
    \/ DoPost

ClientSpec == ClientInit /\ [][ClientNext]_vars

----------------------------------------------------------------------------
(* two overlapping runs on their own: every interleaving of their steps *)

RaceInit ==
    /\ JobIdle
    /\ ClientIdle
    /\ rcfg \in RaceCfgs
    /\ now = 1
    /\ rpc = [r \in Runs |-> "idle"]
    /\ rts = [r \in Runs |-> None]
    /\ store = [t \in Clock |-> 0]
    /\ touches = {}

RaceNext ==
    \/ \E r \in Runs : RStart(r)
    \/ \E r \in Runs : RWrite(r)
    \/ \E r \in Runs : RUpload(r)
    \/ \E r \in Runs : RUnlink(r)
    \/ \E r \in Runs : RKey(r)
    \/ \E r \in Runs : RPut(r)
    \/ \E r \in Runs : RHandoff(r)
    \/ Tick

RaceSpec == RaceInit /\ [][RaceNext]_vars

\* every step of run_job is a call with a bounded timeout or a local
\* statement: a run that has not finished takes its next step
LiveSpec == Init /\ [][Next]_vars /\ WF_vars(Next)

----------------------------------------------------------------------------
(* Properties of run_job *)

FetchFailed == hist.fetch \in FetchFailures
StagingFailed == hist.stage \notin {"none", "ok"}
HandoffFailed == hist.handoff \notin {"none", "ok"}
Done == pc = "done"
GotResult == Done /\ outcome.kind = "return"
ErrorNotified == \E i \in 1..Len(notifyLog) : notifyLog[i].kind = "error"
NotifyFailed == \E i \in 1..Len(notifyLog) : ~notifyLog[i].ok

\* C1: once the catalog fetch has failed (success=false envelope, transport
\* error, error status or non-JSON body) the fetch has been attempted exactly
\* once, no pricing, staging or handoff step has run, nothing was staged or
\* handed off, and the run ends by raising to its caller.
C1_FetchFailureAborts ==
    FetchFailed =>
        /\ fetchCalls = 1
        /\ trace = <<Begin("fetch"), End("fetch")>>
        /\ IsNone(priced)
        /\ handoffCalls = <<>>
        /\ disk = {} /\ bucket = {}
        /\ pc \in {"h_outer_except", "done"}
        /\ (Done => outcome.kind = "raise")

C1_Witness ==
    /\ Done
    /\ hist.fetch = "success_false"
    /\ outcome.kind = "raise"
    /\ fetchCalls = 1

\* C2: a run whose staging step did not complete returns a RunResult with a
\* null staged-location reference: location_url in main.run_job, s3_key in
\* handlers.run_job.
C2_FailedStagingNullLocation ==
    (GotResult /\ StagingFailed) =>
        /\ variant = "main" => IsNone(outcome.location_url)
        /\ variant = "handlers" => IsNone(outcome.s3_key)

\* C3: a run in which the staging step or the handoff step failed has made
\* an error notification attempt by the time it returns its result, in both
\* orchestrator variants.
C3_FailureNotified ==
    (GotResult /\ (StagingFailed \/ HandoffFailed)) => ErrorNotified

\* C4: when fetch and pricing succeeded and the handoff call raised, the run
\* is not aborted: it goes on to build its result, and it ends by returning
\* a RunResult whose count is the number of priced entries.
C4_HandoffFailureDoesNotAbort ==
    HandoffFailed =>
        /\ hist.fetch = "ok" /\ hist.price = "ok"
        /\ pc \in {"m_result", "h_inner_except", "h_result", "done"}
        /\ Done => (outcome.kind = "return" /\ outcome.count = Len(Val(priced)))

C4_Witness ==
    /\ GotResult
    /\ hist.handoff = "RequestError"
    /\ outcome.count = 2

\* what the caller receives, as a function of the variant, the environment
\* and the answers of the vendor, the file system, the staging transport,
\* the clock and Toolswift: no notification answer enters it
ExpectedOutcome ==
    IF FetchFailed
    THEN RaiseOutcome(Val(get_full_catalog([kind |-> hist.fetch, rows |-> <<>>]).exc))
    ELSE IF hist.price # "ok" THEN RaiseOutcome(hist.price)
    ELSE IF variant = "main" /\ hist.write # "ok" THEN RaiseOutcome(hist.write)
    ELSE IF variant = "main"
    THEN [NoOutcome EXCEPT
            !.kind = "return",
            !.count = Len(Val(products)),
            !.file = IF env.save_output
                     THEN Some(TempFile(Val(hist.clock))) ELSE None,
            !.saved_files = env.save_output,
            !.location_url = hist.staged]
    ELSE [NoOutcome EXCEPT
            !.kind = "return",
            !.count = Len(Val(products)),
            !.s3_key = IF IsNone(hist.clock) THEN None
                       ELSE Some(S3Key(Val(hist.clock))),
            !.timestamp = hist.clock]

\* C5: the outcome the caller sees (the RunResult and its fields, or the
\* exception raised) is determined by the stage answers alone, whether the
\* start and error notifications succeeded or raised; after a failed fetch
\* the caller gets the fetch error even when notify_error failed too.
C5_NotificationsDoNotAffectOutcome ==
    Done => outcome = ExpectedOutcome

C5_Witness ==
    /\ Done
    /\ variant = "handlers"
    /\ hist.fetch = "success_false"
    /\ notifyLog = <<[kind |-> "error", ok |-> FALSE]>>
    /\ outcome = RaiseOutcome("ValueError")

\* the stages a run needs to pass before it builds a RunResult
ReachesResult ==
    /\ hist.fetch = "ok"
    /\ hist.price = "ok"
    /\ variant = "main" => hist.write = "ok"

\* C6 as stated: every finished run has returned a RunResult, whichever
\* stages failed.
C6_EveryRunReturnsResult ==
    Done => outcome.kind = "return"

\* C6 amended: every run terminates; it returns a RunResult exactly when
\* fetch and pricing (and in main.run_job the temp-file write) succeeded,
\* whatever staging, handoff and notifications did, otherwise it raises;
\* and the outcome, once produced, is the only one.
C6_OneResultUnlessAborted ==
    /\ <>Done
    /\ [](Done => /\ ReachesResult => outcome.kind = "return"
                  /\ ~ReachesResult => outcome.kind = "raise")
    /\ [](~Done => outcome = NoOutcome)
    /\ [][Done => outcome' = outcome]_vars

C6_Witness ==
    /\ GotResult
    /\ StagingFailed
    /\ HandoffFailed
    /\ NotifyFailed

StageOrder ==
    <<Begin("fetch"), End("fetch"), Begin("pricing"), End("pricing"),
      Begin("staging"), End("staging"), Begin("handoff"), End("handoff")>>
IsPrefix(s, t) ==
    /\ Len(s) <= Len(t)
    /\ \A i \in 1..Len(s) : s[i] = t[i]

\* C7: the stage events of a run are, in order, fetch, pricing, staging,
\* handoff, each stage ending before the next begins: a stage never starts
\* before the previous one has finished and no two are in progress together.
C7_StagesSequential ==
    IsPrefix(trace, StageOrder)

C7_Witness ==
    /\ Done
    /\ trace = StageOrder

AllSucceeded ==
    /\ hist.fetch = "ok" /\ hist.price = "ok"
    /\ hist.stage = "ok" /\ hist.handoff = "ok"

\* C8: in a run where the vendor returned N rows and every stage succeeded,
\* the handoff endpoint was called exactly once, with upsert = true and the
\* Location the staging step returned, and the RunResult has count = N.
C8_HappyPathHandoff ==
    (Done /\ AllSucceeded) =>
        /\ Len(handoffCalls) = 1
        /\ handoffCalls[1].upsert = TRUE
        /\ ~IsNone(hist.staged)
        /\ handoffCalls[1].Location = hist.staged
        /\ outcome.kind = "return"
        /\ outcome.count = Len(Val(products))

C8_Witness ==
    /\ Done /\ AllSucceeded
    /\ Len(Val(products)) = 2
    /\ outcome.count = 2
    /\ Len(handoffCalls) = 1

----------------------------------------------------------------------------
(* Properties of compute_final_price *)

Priced == ~IsNone(final_price)
Positive(x) == ~IsNone(x) /\ Val(x) > 0

\* floor(CostPrice * 1.3) + 0.99, in thousandths
MarginFloor(cost) == ((cost * 13) \div 10000) * 1000 + 990

\* C9: a product with CostPrice > 0 is priced at or above the margin floor
\* floor(CostPrice * 1.3) + 0.99, whatever its CADmap and USDmap.
C9_MarginFloorRespected ==
    (Priced /\ Positive(product.Price)) =>
        Val(final_price) >= MarginFloor(Val(product.Price))

C9_Witness ==
    /\ Priced
    /\ product.Price = Some(50000)
    /\ product.CADmap = Some(10000)
    /\ product.USDmap = None
    /\ Val(final_price) = 65990

\* the reference rule, before rounding
RefBase(p) ==
    IF Positive(p.CADmap) THEN Some(Val(p.CADmap))
    ELSE IF Positive(p.USDmap)
    THEN Some(((Val(p.USDmap) * 14) \div 10000) * 1000 + 990)
    ELSE IF Positive(p.Price)
    THEN Some(((Val(p.Price) * 175) \div 100000) * 1000 + 990)
    ELSE None
Max(a, b) == IF a >= b THEN a ELSE b
RefPrice(p) ==
    IF IsNone(RefBase(p)) THEN 0
    ELSE IF Positive(p.Price)
    THEN Max(Val(RefBase(p)), MarginFloor(Val(p.Price)))
    ELSE Val(RefBase(p))

----------------------------------------------------------------------------
(* Properties of compute_priced_catalog *)

\* every quantity is a number, as the Product type says
WellFormed(ps) == \A i \in 1..Len(ps) : ~IsNone(ps[i].Available)
CatalogPriced == hist.price = "ok"

\* C11: compute_priced_catalog on N products (discontinued ones and
\* duplicate part numbers included) returns N entries, entry i carrying the
\* PartNumber of product i as its SKU: nothing dropped, merged or reordered.
C11_CatalogPreserved ==
    (hist.price # "none" /\ WellFormed(Val(products))) =>
        /\ CatalogPriced
        /\ Len(Val(priced)) = Len(Val(products))
        /\ \A i \in 1..Len(Val(products)) :
              Val(priced)[i].SKU = Val(products)[i].PartNumber

C11_Witness ==
    /\ CatalogPriced
    /\ Len(Val(products)) = 2
    /\ Val(products)[1].PartNumber = Val(products)[2].PartNumber
    /\ Val(products)[1].Discontinued
    /\ ~Val(products)[2].Discontinued
    /\ Len(Val(priced)) = 2

\* C12: the active flag of every priced entry is the inverse of the
\* product's discontinued flag.
C12_ActiveIsNotDiscontinued ==
    CatalogPriced =>
        \A i \in 1..Len(Val(priced)) :
            Val(priced)[i].isActive = ~Val(products)[i].Discontinued

----------------------------------------------------------------------------
(* Configuration errors and the handoff payload *)

\* a setting the variant reads is absent from the environment
RequiredConfigMissing ==
    \/ ConfigMissing(env)
    \/ variant = "handlers" /\ ~env.bucket_name
InTrace(ev) == \E i \in 1..Len(trace) : trace[i] = ev

\* C15: a run that meets a missing required setting (store key, bearer
\* token, bucket name) is aborted: the stage that needed the setting is the
\* last one to run and the run does not return a normal RunResult.
C15_ConfigErrorAborts ==
    RequiredConfigMissing =>
        /\ ~GotResult
        /\ (hist.stage \in {"ValueError", "KeyError"}) => ~InTrace(Begin("handoff"))

\* C18: every handoff request carries a non-null Location, the URL the
\* staging step of the same run returned; none is sent after a failed
\* staging step.
C18_HandoffLocationIsStagedUrl ==
    \A i \in 1..Len(handoffCalls) :
        /\ ~IsNone(handoffCalls[i].Location)
        /\ handoffCalls[i].Location = hist.staged
        /\ hist.stage = "ok"

----------------------------------------------------------------------------
(* Properties of the catalog client *)

Replied == ~IsNone(reply)
Signed == ~IsNone(wire.header)
Unusable(x) == IsNone(x) \/ Val(x) = ""
CredsMissing == Unusable(creds.app_id) \/ Unusable(creds.api_key)

\* C13: for every POST and every payload the body the signature is computed
\* over is, token for token, the body that is transmitted.
C13_SignedBodyIsSentBody ==
    (call.op = "post" /\ wire.requested) => Val(wire.signed) = Val(wire.sent)

\* C14: a network-layer failure during any client call (get, post,
\* get_full_catalog) reaches the caller as the transport-error outcome, not
\* as a returned value, a raw transport exception or another error.
C14_TransportErrorReported ==
    (Replied /\ wire.requested /\ call.net = "request_error") =>
        Val(reply).exc = Some("TransportError")

\* C16: with the application identifier or the secret key unset or empty,
\* generate_auth_header fails and returns no credential.
C16_MissingCredentialsRejected ==
    (Signed /\ CredsMissing) => ~IsNone(Val(wire.header).exc)

----------------------------------------------------------------------------
(* Properties of overlapping runs *)

\* C17: the staging artefact one run writes (temp file in main.run_job,
\* object key in handlers.run_job) is never written, uploaded, overwritten
\* or deleted by the other run, in any interleaving.
C17_NoSharedArtefact ==
    \A e1 \in touches : \A e2 \in touches :
        (e1.op = "write" /\ e2.run # e1.run) => e2.name # e1.name

====
